---- MODULE Spec2Model ----
(***************************************************************************)
(* Model of the adaptive stock-advisor agent (agent.py), its stand-in      *)
(* predictor (mock_model.py) and its two callers (run.py, run_daily.py).   *)
(*                                                                         *)
(* Numbers.  The program works on Python floats.  The model keeps every    *)
(* fraction (threshold, learning rate, delta, volatility, returns) as an   *)
(* integer count of 1/Scale units (basis points) and every price as an     *)
(* integer count of cents.  Each float operation that rounds (division,    *)
(* multiplication by a fraction, square root) is modelled by the same      *)
(* operation rounded to the nearest unit.                                  *)
(*                                                                         *)
(* Not modelled: the timestamps (history.date, ultima_atualizacao), the    *)
(* console output and the sleeps.                                          *)
(*                                                                         *)
(* Specifications.  Spec, SpecLoad and SpecCycle take every call of the    *)
(* agent as one step (any calls, a preloaded policy.json, the two caller   *)
(* scripts); SpecStore has the calls that read or write policy.json only;  *)
(* SpecLive is one process that is called for ever; SpecCrash and          *)
(* SpecShared follow learn statement by statement, with a process that can *)
(* be stopped inside learn and with two processes on the same files.       *)
(***************************************************************************)
EXTENDS Integers, Sequences, FiniteSets, TLC

\* ------------------------------------------------------------------ bounds
\* The ledger is unbounded in the program; decide is not taken once the
\* ledger holds MaxRecords records.
MaxRecords == 2

\* How often a process followed statement by statement is started.
MaxRuns == 2

\* Length of the run of missed opportunities behind the second initial state.
StreakLen == 8

\* ------------------------------------------------------------- arithmetic
\* One unit of a fraction is 1/Scale (0.0001); 0.01 is 100 units.
Scale == 100 * 100

Abs(x) == IF x < 0 THEN -x ELSE x

Max(a, b) == IF a >= b THEN a ELSE b

Min(a, b) == IF a <= b THEN a ELSE b

\* a / b rounded to the nearest unit (b > 0), as a float division rounds.
RoundDiv(a, b) ==
    IF a >= 0 THEN (2 * a + b) \div (2 * b)
              ELSE -((2 * (-a) + b) \div (2 * b))

\* x * f for a fraction f held in units of 1/Scale.
MulFrac(x, f) == RoundDiv(x * f, Scale)

RECURSIVE SqrtSearch(_, _, _)
SqrtSearch(n, lo, hi) ==
    IF lo >= hi THEN lo
    ELSE LET mid == (lo + hi + 1) \div 2
         IN  IF mid * mid <= n THEN SqrtSearch(n, mid, hi)
                               ELSE SqrtSearch(n, lo, mid - 1)

\* math.sqrt rounded to the nearest integer.
Sqrt(n) ==
    LET r == SqrtSearch(n, 0, Min(n, 46340))
    IN  IF n - r * r > r THEN r + 1 ELSE r

RECURSIVE SumSeq(_)
SumSeq(s) == IF s = <<>> THEN 0 ELSE s[1] + SumSeq(Tail(s))

\* ------------------------------------------------------ program constants
COMPRAR == "COMPRAR"
VENDER  == "VENDER"
MANTER  == "MANTER"

\* The policy _load_policy creates when policy.json does not exist.
default_policy ==
    [threshold |-> 100, learning_rate |-> 500,
     min_threshold |-> 20, max_threshold |-> 500]

\* Cap of the dynamic learning rate (0.20).
MaxDynamicLr == 2000

\* Volatility returned for a history shorter than the window (0.01).
DefaultVolatility == 100

\* window parameter of _calcular_volatilidade.
Window == 5

\* ----------------------------------------------------------------- inputs
\* Price histories handed to decide (prices in cents).
Histories ==
    { <<>>,
      <<0>>,
      <<10100>>,
      <<10000, 10050, 10100, 10100>>,
      <<10000, 10400, 9600, 10500, 10000>>,
      <<0, 0, 0, 0, 0>>,
      <<10000, 10100, 10000, 10100, 0>> }

\* Relative error of the predictor, in units of 1/Scale; MockLSTM draws it
\* from [-0.03, 0.03].
Variations == {-300, 0, 150, 300}

\* Closing prices handed to learn (cents).
LearnPrices == {7000, 10100, 13000}

\* ------------------------------------------------------------------ state
VARIABLES
    pc,              \* position of the calling process ("down": no process)
    day,             \* run.py: loop variable dia
    market_history,  \* the caller's price list (run.py, run_daily.py)
    reported,        \* run_daily.py: the pending trade it printed, if any
    policy,          \* self.policy: <<>> without an agent, else <<dict>>
    policy_file,     \* policy.json: [exists, text]
    metrics_file,    \* metrics.json: <<>> when absent, else <<dict>>
    history,         \* memory.db, table history, in id order
    last,            \* the most recent call and its outcome, as the caller sees it
    base,            \* number of ledger rows the exploration started with
    proc,            \* processes followed statement by statement: for each
                     \* its position, its self.policy and the locals of learn
    persisted        \* ids of the trades for which a statement-by-statement
                     \* learn has written an adjusted threshold to policy.json

vars == <<pc, day, market_history, reported, policy, policy_file,
          metrics_file, history, last, base, proc, persisted>>

\* State used only when calls are followed statement by statement.
step_vars == <<proc, persisted>>

\* State owned by the agent and its files (everything but the caller's).
agent_vars == <<policy, policy_file, metrics_file, history, last>>

\* ------------------------------------------------------------ policy file
\* Keys of the policy dict, in the order json.dump writes them.
PolicyKeys == <<"threshold", "learning_rate", "min_threshold", "max_threshold">>

\* json.dump(self.policy, f): the text is the list of key/value pairs.
json_dump(p) == [i \in 1..Len(PolicyKeys) |-> <<PolicyKeys[i], p[PolicyKeys[i]]>>]

\* A text json.load accepts: an empty or cut-off file raises JSONDecodeError.
json_parses(text) ==
    /\ Len(text) = Len(PolicyKeys)
    /\ \A i \in 1..Len(text) : text[i][1] = PolicyKeys[i]

json_value(text, key) == text[CHOOSE i \in 1..Len(text) : text[i][1] = key][2]

\* json.load(f) on a text that parses.
json_load(text) ==
    [threshold     |-> json_value(text, "threshold"),
     learning_rate |-> json_value(text, "learning_rate"),
     min_threshold |-> json_value(text, "min_threshold"),
     max_threshold |-> json_value(text, "max_threshold")]

NoFile == [exists |-> FALSE, text |-> <<>>]

\* open(self.policy_file, "w"); json.dump(self.policy, f, indent=4)
written_policy(p) == [exists |-> TRUE, text |-> json_dump(p)]

\* Variant of _save_policy: policy_data is ignored.
_save_policy_current(current, data) ==
    [policy |-> current, file |-> [exists |-> TRUE, text |-> json_dump(current)]]

\* _save_policy(policy_data): the pair <<self.policy, policy.json>> after the
\* call; data is <<>> for None, else <<dict>>.
_save_policy(current, data) ==
    LET p == IF data # <<>> THEN data[1] ELSE current
    IN  [policy |-> p, file |-> written_policy(p)]

\* Variant of _load_policy: a file that does not parse is replaced by the
\* default policy.
_load_policy_replace_corrupt(file) ==
    IF file.exists /\ json_parses(file.text)
    THEN [raised |-> "", policy |-> <<json_load(file.text)>>, file |-> file]
    ELSE [raised |-> "", policy |-> <<default_policy>>,
          file |-> [exists |-> TRUE, text |-> json_dump(default_policy)]]

\* _load_policy(): what it raises ("" for a normal return), the policy it
\* returns and policy.json afterwards.
_load_policy(file) ==
    IF file.exists
    THEN IF json_parses(file.text)
         THEN [raised |-> "", policy |-> <<json_load(file.text)>>, file |-> file]
         ELSE [raised |-> "JSONDecodeError", policy |-> <<>>, file |-> file]
    ELSE LET saved == _save_policy(default_policy, <<default_policy>>)
         IN  [raised |-> "", policy |-> <<default_policy>>, file |-> saved.file]

\* ----------------------------------------------------------------- ledger
\* Rows with outcome_evaluated = 0 / 1, as indices into history.
Pending(h) == {i \in DOMAIN h : h[i].outcome_evaluated = 0}

Evaluated(h) == {i \in DOMAIN h : h[i].outcome_evaluated = 1}

\* id INTEGER PRIMARY KEY AUTOINCREMENT: one more than the largest id so far
\* (no row is ever deleted).
next_id(h) == IF h = <<>> THEN 1 ELSE h[Len(h)].id + 1

\* Variant of _record_decision: the effective threshold is stored.
_record_decision_effective(h, p, price, pred, action, vol) ==
    Append(h, [id                 |-> IF h = <<>> THEN 1 ELSE h[Len(h)].id + 1,
               price_at_decision  |-> price,
               predicted_price    |-> pred,
               action             |-> action,
               threshold_used     |-> Max(p.threshold, RoundDiv(vol, 2)),
               volatility         |-> vol,
               learning_rate_used |-> <<>>,
               real_return        |-> <<>>,
               outcome_evaluated  |-> 0])

\* INSERT INTO history ... VALUES (?, ?, ?, ?, ?, ?, NULL, NULL, 0); a NULL
\* column is <<>>, a set one is <<value>>.
_record_decision(h, p, price, pred, action, vol) ==
    Append(h, [id                 |-> next_id(h),
               price_at_decision  |-> price,
               predicted_price    |-> pred,
               action             |-> action,
               threshold_used     |-> p.threshold,
               volatility         |-> vol,
               learning_rate_used |-> <<>>,
               real_return        |-> <<>>,
               outcome_evaluated  |-> 0])

\* Variant of learn_select: the WHERE clause is missing.
learn_select_any_row(h) == Len(h)

\* SELECT ... WHERE outcome_evaluated = 0 ORDER BY id DESC LIMIT 1 (learn).
learn_select(h) == CHOOSE i \in Pending(h) : \A j \in Pending(h) : h[j].id <= h[i].id

\* SELECT ... WHERE outcome_evaluated = 0 ORDER BY id ASC LIMIT 1 (run_daily).
report_select(h) == CHOOSE i \in Pending(h) : \A j \in Pending(h) : h[j].id >= h[i].id

\* Variant of mark_evaluated: the learning rate is written into the
\* threshold_used column.
mark_evaluated_wrong_column(h, trade_id, dynamic_lr, lucro_trade) ==
    [i \in DOMAIN h |->
        IF h[i].id = trade_id
        THEN [h[i] EXCEPT !.outcome_evaluated  = 1,
                          !.threshold_used     = dynamic_lr,
                          !.learning_rate_used = <<dynamic_lr>>,
                          !.real_return        = <<lucro_trade>>]
        ELSE h[i]]

\* Variant of mark_evaluated: the UPDATE has no WHERE clause.
mark_evaluated_every_row(h, trade_id, dynamic_lr, lucro_trade) ==
    [i \in DOMAIN h |->
        [h[i] EXCEPT !.outcome_evaluated  = 1,
                     !.learning_rate_used = <<dynamic_lr>>,
                     !.real_return        = <<lucro_trade>>]]

\* UPDATE history SET outcome_evaluated = 1, learning_rate_used = ?,
\* real_return = ? WHERE id = ?
mark_evaluated(h, trade_id, dynamic_lr, lucro_trade) ==
    [i \in DOMAIN h |->
        IF h[i].id = trade_id
        THEN [h[i] EXCEPT !.outcome_evaluated = 1,
                          !.learning_rate_used = <<dynamic_lr>>,
                          !.real_return = <<lucro_trade>>]
        ELSE h[i]]

\* -------------------------------------------------------------- predictor
\* MockLSTM.predict: last_price * (1 + variation); the random variation is
\* the parameter.  Called on a non-empty list.
predict(history_data, variation) ==
    LET last_price == history_data[Len(history_data)]
    IN  last_price + MulFrac(last_price, variation)

\* ------------------------------------------------------------- volatility
\* prices[-window:]
last_window(prices, window) ==
    SubSeq(prices, Len(prices) - window + 1, Len(prices))

RECURSIVE SumSqDev(_, _)
SumSqDev(s, avg) ==
    IF s = <<>> THEN 0
    ELSE (s[1] - avg) * (s[1] - avg) + SumSqDev(Tail(s), avg)

\* Variant of _calcular_volatilidade: no default for a short list; the
\* deviation is taken over the prices there are, and a single price divides
\* by zero.
_calcular_volatilidade_no_default(prices, window) ==
    IF Len(prices) < 2
    THEN [raised |-> "ZeroDivisionError", value |-> 0]
    ELSE LET subset   == SubSeq(prices, Max(1, Len(prices) - window + 1),
                                Len(prices))
             avg      == RoundDiv(SumSeq(subset), Len(subset))
             variance == RoundDiv(SumSqDev(subset, avg), Len(subset) - 1)
             std_dev  == Sqrt(variance)
         IN  IF avg = 0
             THEN [raised |-> "ZeroDivisionError", value |-> 0]
             ELSE [raised |-> "", value |-> RoundDiv(std_dev * Scale, avg)]

\* _calcular_volatilidade(prices, window): [raised, value].  With five
\* prices of mean 0 the final division raises ZeroDivisionError.
_calcular_volatilidade(prices, window) ==
    IF Len(prices) < window
    THEN [raised |-> "", value |-> DefaultVolatility]
    ELSE LET subset   == last_window(prices, window)
             avg      == RoundDiv(SumSeq(subset), Len(subset))
             variance == RoundDiv(SumSqDev(subset, avg), Len(subset) - 1)
             std_dev  == Sqrt(variance)
         IN  IF avg = 0
             THEN [raised |-> "ZeroDivisionError", value |-> 0]
             ELSE [raised |-> "", value |-> RoundDiv(std_dev * Scale, avg)]

\* ----------------------------------------------------------------- decide
\* Weight of the volatility in the effective threshold (0.5).
VolatilityWeight == 5000

\* Variant of threshold_efetivo: the volatility is ignored.
threshold_efetivo_base_only(threshold_base, volatility) == threshold_base

\* threshold_efetivo = max(threshold_base, volatility * 0.5)
threshold_efetivo(threshold_base, volatility) ==
    Max(threshold_base, MulFrac(volatility, VolatilityWeight))

\* action = "MANTER"; if delta > threshold_efetivo ...; elif delta < -...
decide_action(delta, efetivo) ==
    IF delta > efetivo THEN COMPRAR
    ELSE IF delta < -efetivo THEN VENDER
    ELSE MANTER

\* decide, lines 382-398: delta, the action, the new row, the return value.
decide_body(p, h, mh, variation, volatility) ==
    LET current_price   == mh[Len(mh)]
        predicted_price == predict(mh, variation)
        delta  == RoundDiv((predicted_price - current_price) * Scale,
                           current_price)
        action == decide_action(delta,
                                threshold_efetivo(p.threshold, volatility))
    IN  [raised          |-> "",
         action          |-> action,
         predicted_price |-> predicted_price,
         delta           |-> delta,
         history         |-> _record_decision(h, p, current_price,
                                              predicted_price, action,
                                              volatility)]

\* Variant of decide_result: the row is written before delta is computed,
\* so a zero current price leaves a row behind.
decide_result_record_first(p, h, mh, variation) ==
    IF mh = <<>>
    THEN [raised |-> "IndexError", history |-> h]
    ELSE LET vol == _calcular_volatilidade(mh, Window)
         IN  IF vol.raised # ""
             THEN [raised |-> vol.raised, history |-> h]
             ELSE IF mh[Len(mh)] = 0
             THEN [raised |-> "ZeroDivisionError",
                   history |-> _record_decision(h, p, 0, predict(mh, variation),
                                                MANTER, vol.value)]
             ELSE decide_body(p, h, mh, variation, vol.value)

\* Variant of decide_result: a zero current price is taken as delta = 0
\* instead of raising, and the decision is recorded.
decide_result_zero_delta(p, h, mh, variation) ==
    IF mh = <<>>
    THEN [raised |-> "IndexError", history |-> h]
    ELSE LET vol == _calcular_volatilidade(mh, Window)
         IN  IF vol.raised # ""
             THEN [raised |-> vol.raised, history |-> h]
             ELSE IF mh[Len(mh)] = 0
             THEN [raised          |-> "",
                   action          |-> MANTER,
                   predicted_price |-> 0,
                   delta           |-> 0,
                   history         |-> _record_decision(h, p, 0, 0, MANTER,
                                                        vol.value)]
             ELSE decide_body(p, h, mh, variation, vol.value)

\* decide(market_history), with the predictor's random variation as a
\* parameter: what it raises or returns, and the ledger afterwards.
\* market_history[-1] raises IndexError on an empty list; the divisions by
\* the mean and by current_price raise ZeroDivisionError.
decide_result(p, h, mh, variation) ==
    IF mh = <<>>
    THEN [raised |-> "IndexError", history |-> h]
    ELSE LET vol == _calcular_volatilidade(mh, Window)
         IN  IF vol.raised # ""
             THEN [raised |-> vol.raised, history |-> h]
             ELSE IF mh[Len(mh)] = 0
             THEN [raised |-> "ZeroDivisionError", history |-> h]
             ELSE decide_body(p, h, mh, variation, vol.value)

\* What the caller of decide sees.
decide_outcome(r, mh) ==
    IF r.raised # ""
    THEN [op |-> "decide", arg |-> mh, raised |-> r.raised]
    ELSE [op |-> "decide", arg |-> mh, raised |-> "", action |-> r.action,
          predicted_price |-> r.predicted_price, delta |-> r.delta]

\* ---------------------------------------------------------------- metrics
RECURSIVE SumReturns(_, _)
SumReturns(h, rows) ==
    IF rows = {} THEN 0
    ELSE LET i == CHOOSE j \in rows : TRUE
         IN  h[i].real_return[1] + SumReturns(h, rows \ {i})

\* Variant of _atualizar_metricas: MANTER rows count as active trades.
_atualizar_metricas_with_holds(h, p, file) ==
    LET trades   == {i \in DOMAIN h : h[i].outcome_evaluated = 1}
        acertos  == {i \in trades : h[i].real_return[1] > 0}
    IN  IF Cardinality(trades) = 0
        THEN file
        ELSE << [total_operacoes_avaliadas |-> Cardinality(trades),
                 trades_ativos             |-> Cardinality(trades),
                 taxa_de_acerto            |-> RoundDiv(Cardinality(acertos)
                                                  * Scale, Cardinality(trades)),
                 lucro_acumulado_estimado  |-> SumReturns(h, trades),
                 threshold_atual           |-> p.threshold] >>

\* _atualizar_metricas(): metrics.json afterwards (left alone when no row is
\* evaluated).  Percentages are kept in hundredths of a percent, which is
\* what round(x * 100, 2) keeps.
_atualizar_metricas(h, p, file) ==
    LET trades        == Evaluated(h)
        trades_ativos == {i \in trades : h[i].action # MANTER}
        acertos       == {i \in trades_ativos : h[i].real_return[1] > 0}
        win_rate      == IF Cardinality(trades_ativos) > 0
                         THEN RoundDiv(Cardinality(acertos) * Scale,
                                       Cardinality(trades_ativos))
                         ELSE 0
    IN  IF Cardinality(trades) = 0
        THEN file
        ELSE << [total_operacoes_avaliadas |-> Cardinality(trades),
                 trades_ativos             |-> Cardinality(trades_ativos),
                 taxa_de_acerto            |-> win_rate,
                 lucro_acumulado_estimado  |-> SumReturns(h, trades_ativos),
                 threshold_atual           |-> p.threshold] >>

\* ------------------------------------------------------------------ learn
MsgMantendo == "Mantendo rigor. Nenhuma oportunidade encontrada."
MsgAumentou == "Aumentou rigor (Erro  de recomendação)"
MsgDiminuiu == "Diminuiu rigor (Perdeu Oportunidade)"
MsgNone     == "None"

\* variacao_real = (current_price_today - price_yesterday) / price_yesterday
variacao(current_price_today, price_yesterday) ==
    RoundDiv((current_price_today - price_yesterday) * Scale, price_yesterday)

\* The agent's bet: gains on a rise after COMPRAR, on a fall after VENDER.
lucro(action, variacao_real) ==
    IF action = COMPRAR THEN variacao_real
    ELSE IF action = VENDER THEN -variacao_real
    ELSE 0

\* Variant of dynamic_rate: the rate is not capped.
dynamic_rate_uncapped(base_lr, variacao_real) ==
    RoundDiv(base_lr * (Scale + Abs(variacao_real) * 10), Scale)

\* dynamic_lr = min(base_lr * (1 + abs(variacao_real) * 10), 0.20)
dynamic_rate(base_lr, variacao_real) ==
    Min(MulFrac(base_lr, Scale + Abs(variacao_real) * 10), MaxDynamicLr)

\* Variant of adjust: the two multiplications are exchanged.
adjust_exchanged(p, action, variacao_real, dynamic_lr) ==
    IF \/ action = COMPRAR /\ variacao_real < 0
       \/ action = VENDER /\ variacao_real > 0
    THEN [threshold |-> MulFrac(p.threshold, Scale - dynamic_lr),
          msg |-> MsgAumentou, adjusted |-> TRUE]
    ELSE IF action = MANTER /\ Abs(variacao_real) > p.threshold
    THEN [threshold |-> MulFrac(p.threshold, Scale + dynamic_lr),
          msg |-> MsgDiminuiu, adjusted |-> TRUE]
    ELSE [threshold |-> p.threshold, msg |-> MsgMantendo, adjusted |-> FALSE]

\* The learning logic: the threshold after the multiplication, the message
\* and the adjusted flag.
adjust(p, action, variacao_real, dynamic_lr) ==
    IF \/ action = COMPRAR /\ variacao_real < 0
       \/ action = VENDER /\ variacao_real > 0
    THEN [threshold |-> MulFrac(p.threshold, Scale + dynamic_lr),
          msg |-> MsgAumentou, adjusted |-> TRUE]
    ELSE IF action = MANTER /\ Abs(variacao_real) > p.threshold
    THEN [threshold |-> MulFrac(p.threshold, Scale - dynamic_lr),
          msg |-> MsgDiminuiu, adjusted |-> TRUE]
    ELSE [threshold |-> p.threshold, msg |-> MsgMantendo, adjusted |-> FALSE]

\* Variant of clamp: the range is not enforced.
clamp_off(p, threshold, adjusted) == threshold

\* if adjusted: threshold = max(min_threshold, min(max_threshold, threshold))
clamp(p, threshold, adjusted) ==
    IF adjusted
    THEN Max(p.min_threshold, Min(p.max_threshold, threshold))
    ELSE threshold

\* Variant of learn_evaluate: the adjusted policy is not saved.
learn_evaluate_unsaved(p, pfile, mfile, h, current_price_today) ==
    LET last_trade      == h[learn_select(h)]
        price_yesterday == last_trade.price_at_decision
    IN  IF price_yesterday = 0
        THEN [raised |-> "ZeroDivisionError", msg |-> MsgNone,
              variacao_real |-> 0,
              state |-> [policy |-> p, policy_file |-> pfile,
                         metrics_file |-> mfile, history |-> h]]
        ELSE
        LET variacao_real == variacao(current_price_today, price_yesterday)
            lucro_trade   == lucro(last_trade.action, variacao_real)
            dynamic_lr    == dynamic_rate(p.learning_rate, variacao_real)
            adj           == adjust(p, last_trade.action, variacao_real,
                                    dynamic_lr)
            new_p         == [p EXCEPT !.threshold =
                                 clamp(p, adj.threshold, adj.adjusted)]
            new_h         == mark_evaluated(h, last_trade.id, dynamic_lr,
                                            lucro_trade)
        IN  [raised |-> "", msg |-> adj.msg, variacao_real |-> variacao_real,
             state |-> [policy       |-> new_p,
                        policy_file  |-> pfile,
                        metrics_file |-> _atualizar_metricas(new_h, new_p,
                                                             mfile),
                        history      |-> new_h]]

\* learn, lines 304-356: evaluate the selected trade.
learn_evaluate(p, pfile, mfile, h, current_price_today) ==
    LET last_trade      == h[learn_select(h)]
        price_yesterday == last_trade.price_at_decision
    IN  IF price_yesterday = 0
        THEN [raised |-> "ZeroDivisionError", msg |-> MsgNone,
              variacao_real |-> 0,
              state |-> [policy |-> p, policy_file |-> pfile,
                         metrics_file |-> mfile, history |-> h]]
        ELSE
        LET variacao_real == variacao(current_price_today, price_yesterday)
            lucro_trade   == lucro(last_trade.action, variacao_real)
            dynamic_lr    == dynamic_rate(p.learning_rate, variacao_real)
            adj           == adjust(p, last_trade.action, variacao_real,
                                    dynamic_lr)
            new_p         == [p EXCEPT !.threshold =
                                 clamp(p, adj.threshold, adj.adjusted)]
            saved         == _save_policy(new_p, <<>>)
            new_h         == mark_evaluated(h, last_trade.id, dynamic_lr,
                                            lucro_trade)
        IN  [raised |-> "", msg |-> adj.msg, variacao_real |-> variacao_real,
             state |-> [policy       |-> saved.policy,
                        policy_file  |-> saved.file,
                        metrics_file |-> _atualizar_metricas(new_h,
                                                saved.policy, mfile),
                        history      |-> new_h]]

\* Variant of learn_result: without a pending trade the default message is
\* returned instead of None.
learn_result_default_msg(p, pfile, mfile, h, current_price_today) ==
    IF Pending(h) = {}
    THEN [raised |-> "", msg |-> MsgMantendo, variacao_real |-> 0,
          state |-> [policy |-> p, policy_file |-> pfile,
                     metrics_file |-> mfile, history |-> h]]
    ELSE learn_evaluate(p, pfile, mfile, h, current_price_today)

\* learn(current_price_today): what it raises or returns, and the policy,
\* policy.json, metrics.json and the ledger afterwards.
learn_result(p, pfile, mfile, h, current_price_today) ==
    IF Pending(h) = {}
    THEN [raised |-> "", msg |-> MsgNone, variacao_real |-> 0,
          state |-> [policy |-> p, policy_file |-> pfile,
                     metrics_file |-> mfile, history |-> h]]
    ELSE learn_evaluate(p, pfile, mfile, h, current_price_today)

\* What the caller of learn sees.
learn_outcome(r, price) ==
    IF r.raised # ""
    THEN [op |-> "learn", arg |-> price, raised |-> r.raised]
    ELSE [op |-> "learn", arg |-> price, raised |-> "", msg |-> r.msg,
          variacao_real |-> r.variacao_real]

\* ------------------------------------------------------- agent operations
self_policy == policy[1]

\* AgenteConselheiroDeAcoes(): load the policy, create the table.  When the
\* load raises no agent exists afterwards.
__init__ ==
    LET loaded == _load_policy(policy_file)
    IN  /\ policy' = loaded.policy
        /\ policy_file' = loaded.file
        /\ last' = [op |-> "init", raised |-> loaded.raised]
        /\ UNCHANGED <<metrics_file, history>>

\* agente.decide(mh)
decide(mh, variation) ==
    LET r == decide_result(self_policy, history, mh, variation)
    IN  /\ history' = r.history
        /\ last' = decide_outcome(r, mh)
        /\ UNCHANGED <<policy, policy_file, metrics_file>>

\* agente.learn(price)
learn(price) ==
    LET r == learn_result(self_policy, policy_file, metrics_file, history, price)
    IN  /\ policy' = <<r.state.policy>>
        /\ policy_file' = r.state.policy_file
        /\ metrics_file' = r.state.metrics_file
        /\ history' = r.state.history
        /\ last' = learn_outcome(r, price)

\* --------------------------------------------- any sequence of the calls
caller_vars == <<day, market_history, reported, base, step_vars>>

\* A process starts and constructs the agent.
Start ==
    /\ pc = "down"
    /\ __init__
    /\ pc' = IF policy' = <<>> THEN "down" ELSE "up"
    /\ UNCHANGED caller_vars

Decide ==
    /\ pc = "up"
    /\ Len(history) < base + MaxRecords
    /\ \E mh \in Histories, variation \in Variations : decide(mh, variation)
    /\ UNCHANGED <<pc, caller_vars>>

Learn ==
    /\ pc = "up"
    /\ \E price \in LearnPrices : learn(price)
    /\ UNCHANGED <<pc, caller_vars>>

\* The process ends; the files stay.
Exit ==
    /\ pc \in {"up", "exit"}
    /\ pc' = "down"
    /\ policy' = <<>>
    /\ last' = [op |-> "exit", raised |-> ""]
    /\ UNCHANGED <<policy_file, metrics_file, history, caller_vars>>

\* ---------------------------------------------------------- initial states
\* The processes that can be followed statement by statement.
Procs == {1, 2}

\* A process that is not running: no agent, no call; runs counts how often
\* it has been started.
Down(runs) == [pc |-> "down", policy |-> <<>>, frame |-> <<>>, runs |-> runs]

no_proc == [a \in Procs |-> Down(0)]

\* History and closing price of a day on which the agent holds and the
\* market then moves by 30%: a missed opportunity.
StreakDay == [history |-> <<10000, 10050, 10100, 10100>>, price |-> 7000]

\* The files after n cycles decide(StreakDay.history), learn(StreakDay.price),
\* the predictor returning the last price each time.
RECURSIVE after_streak(_, _)
after_streak(st, n) ==
    IF n = 0 THEN st
    ELSE LET d == decide_result(st.policy, st.history, StreakDay.history, 0)
             l == learn_result(st.policy, st.policy_file, st.metrics_file,
                               d.history, StreakDay.price)
         IN  after_streak(l.state, n - 1)

\* The files right after the first construction of the agent.
first_run ==
    LET loaded == _load_policy(NoFile)
    IN  [policy |-> loaded.policy[1], policy_file |-> loaded.file,
         metrics_file |-> <<>>, history |-> <<>>]

\* No process is running.  Either nothing exists yet (first run: no
\* policy.json, no metrics.json, an empty memory.db), or the files are those
\* an earlier process left after StreakLen missed opportunities.
Init ==
    /\ pc = "down"
    /\ day = 0
    /\ market_history = <<>>
    /\ reported = <<>>
    /\ policy = <<>>
    /\ last = [op |-> "none", raised |-> ""]
    /\ \/ /\ policy_file = NoFile
          /\ metrics_file = <<>>
          /\ history = <<>>
       \/ LET st == after_streak(first_run, StreakLen)
          IN  /\ policy_file = st.policy_file
              /\ metrics_file = st.metrics_file
              /\ history = st.history
    /\ base = Len(history)
    /\ proc = no_proc
    /\ persisted = {}

Next == Start \/ Decide \/ Learn \/ Exit

Spec == Init /\ [][Next]_vars

\* -------------------------------------- started from an existing policy
\* Policies a policy.json left by earlier runs, or edited by the user, can
\* hold: the default one, the threshold at either end of its range, and a
\* threshold outside the range.
LoadablePolicies ==
    { default_policy,
      [default_policy EXCEPT !.threshold = default_policy.max_threshold],
      [default_policy EXCEPT !.threshold = default_policy.min_threshold],
      [default_policy EXCEPT !.threshold = 800] }

InitLoad ==
    /\ pc = "down"
    /\ day = 0
    /\ market_history = <<>>
    /\ reported = <<>>
    /\ policy = <<>>
    /\ policy_file \in {written_policy(p) : p \in LoadablePolicies}
    /\ metrics_file = <<>>
    /\ history = <<>>
    /\ last = [op |-> "none", raised |-> ""]
    /\ base = 0
    /\ proc = no_proc
    /\ persisted = {}

SpecLoad == InitLoad /\ [][Next]_vars

\* ------------------------------------------ the policy store on its own
\* Texts of a policy.json that json.load rejects: an empty file and one cut
\* off after its second entry.
CorruptTexts == { <<>>, SubSeq(json_dump(default_policy), 1, 2) }

\* Policies with the four keys that a caller can hand to _save_policy:
\* thresholds inside and outside the range, zero values included.
StorePolicies ==
    [threshold     : {20, 100, 500, 800},
     learning_rate : {0, 500, 1000},
     min_threshold : {0, 20},
     max_threshold : {500, Scale}]

\* policy.json is absent, unreadable, or holds one of StorePolicies.
InitStore ==
    /\ pc = "down"
    /\ day = 0
    /\ market_history = <<>>
    /\ reported = <<>>
    /\ policy = <<>>
    /\ policy_file \in {NoFile}
                       \cup {[exists |-> TRUE, text |-> t] : t \in CorruptTexts}
                       \cup {written_policy(p) : p \in StorePolicies}
    /\ metrics_file = <<>>
    /\ history = <<>>
    /\ last = [op |-> "none", raised |-> ""]
    /\ base = 0
    /\ proc = no_proc
    /\ persisted = {}

\* agente._save_policy(P) with a policy P given by the caller.
SavePolicy ==
    /\ pc = "up"
    /\ \E P \in StorePolicies :
          LET saved == _save_policy(self_policy, <<P>>)
          IN  /\ policy' = <<saved.policy>>
              /\ policy_file' = saved.file
              /\ last' = [op |-> "save", arg |-> P, raised |-> ""]
    /\ UNCHANGED <<pc, metrics_file, history, caller_vars>>

\* Only the calls that read or write policy.json.
NextStore == Start \/ SavePolicy \/ Exit

SpecStore == InitStore /\ [][NextStore]_vars

\* ------------------------------------------------------------ the callers
\* run.py: range(1, 16)
Days == 15

\* run.py: the initial market_history.
RunHistory == <<10000, 10050, 10100>>

\* run.py: the day's move, random.uniform(-0.02, 0.02), in units of 1/Scale.
DayMoves == {-200, 100}

\* run_daily.py: price columns market_data.csv can hold.
CsvHistories ==
    { <<10000, 10050, 10100, 10100>>,
      <<10000, 10400, 9600, 10500, 10000>>,
      <<10000, 10400, 9600, 10500, 10000, 10200>> }

\* run_daily.py: fewer than five prices end main before the agent exists.
MinCsvDays == 5

\* run.py, lines 9-12: construct the agent, set the initial history.
RunStart ==
    /\ pc = "down"
    /\ __init__
    /\ pc' = IF policy' = <<>> THEN "down" ELSE "run_top"
    /\ market_history' = RunHistory
    /\ day' = 1
    /\ UNCHANGED <<reported, base, step_vars>>

\* run.py, lines 15-19: the next day's price is appended.
RunNewDay ==
    /\ pc = "run_top"
    /\ \E move \in DayMoves :
          LET preco_ontem == market_history[Len(market_history)]
              preco_hoje  == preco_ontem + MulFrac(preco_ontem, move)
          IN  market_history' = Append(market_history, preco_hoje)
    /\ pc' = IF day > 1 THEN "run_learn" ELSE "run_decide"
    /\ UNCHANGED <<day, reported, base, agent_vars, step_vars>>

\* run.py, lines 24-25: learn(preco_hoje); an exception ends the process.
RunLearn ==
    /\ pc = "run_learn"
    /\ learn(market_history[Len(market_history)])
    /\ pc' = IF last'.raised # "" THEN "exit" ELSE "run_decide"
    /\ UNCHANGED caller_vars

\* run.py, line 33, and the loop's step: decide(market_history).
RunDecide ==
    /\ pc = "run_decide"
    /\ Len(history) < base + MaxRecords
    /\ \E variation \in Variations : decide(market_history, variation)
    /\ pc' = IF last'.raised # "" \/ day = Days THEN "exit" ELSE "run_top"
    /\ day' = day + 1
    /\ UNCHANGED <<market_history, reported, base, step_vars>>

\* run_daily.main, lines 106-128: read the CSV, construct the agent.
DailyStart ==
    /\ pc = "down"
    /\ \E csv \in CsvHistories :
          /\ market_history' = csv
          /\ IF Len(csv) < MinCsvDays
             THEN /\ pc' = "down"
                  /\ last' = [op |-> "main", raised |-> ""]
                  /\ UNCHANGED <<policy, policy_file, metrics_file, history>>
             ELSE /\ __init__
                  /\ pc' = IF policy' = <<>> THEN "down" ELSE "daily_report"
    /\ UNCHANGED <<day, reported, base, step_vars>>

\* run_daily.main, lines 130-143: the pending trade shown to the user.
DailyReport ==
    /\ pc = "daily_report"
    /\ reported' = IF Pending(history) = {}
                   THEN <<>>
                   ELSE LET last_trade == history[report_select(history)]
                        IN  <<last_trade.action, last_trade.predicted_price>>
    /\ pc' = "daily_learn"
    /\ UNCHANGED <<day, market_history, base, agent_vars, step_vars>>

\* run_daily.main, line 152: learn(preco_hoje).
DailyLearn ==
    /\ pc = "daily_learn"
    /\ learn(market_history[Len(market_history)])
    /\ pc' = IF last'.raised # "" THEN "exit" ELSE "daily_decide"
    /\ UNCHANGED caller_vars

\* run_daily.main, line 182: decide(market_history); main then returns.
DailyDecide ==
    /\ pc = "daily_decide"
    /\ Len(history) < base + MaxRecords
    /\ \E variation \in Variations : decide(market_history, variation)
    /\ pc' = "exit"
    /\ UNCHANGED caller_vars

NextCycle ==
    \/ RunStart \/ RunNewDay \/ RunLearn \/ RunDecide
    \/ DailyStart \/ DailyReport \/ DailyLearn \/ DailyDecide
    \/ Exit

SpecCycle == Init /\ [][NextCycle]_vars

\* ------------------------------------------- calls without an end
\* An agent that is called for ever fills a ledger without bound.  Neither
\* learn nor decide reads an evaluated row again (learn selects WHERE
\* outcome_evaluated = 0, decide only inserts), so here the ledger keeps the
\* rows that can still be selected: a decide call drops the evaluated rows
\* before it inserts.  The order of the ids of the remaining rows is kept;
\* metrics.json, which counts the evaluated rows, is not meaningful here.
pending_rows(h) == SelectSeq(h, LAMBDA row : row.outcome_evaluated = 0)

\* The predictor's variations here: it returns the last price, so every
\* decision is MANTER and the threshold can only fall.
LiveVariations == {0}

\* The price lists handed to decide here: an empty one and a short one.
LiveHistories == { <<>>, <<10000, 10050, 10100, 10100>> }

\* agente.decide(mh) on the ledger reduced to its pending rows; at most
\* MaxRecords rows are pending at a time.
DecideLive ==
    /\ pc = "up"
    /\ Len(pending_rows(history)) < MaxRecords
    /\ \E mh \in LiveHistories, variation \in LiveVariations :
          LET r == decide_result(self_policy, pending_rows(history), mh,
                                 variation)
          IN  /\ history' = r.history
              /\ last' = decide_outcome(r, mh)
    /\ UNCHANGED <<pc, policy, policy_file, metrics_file, caller_vars>>

\* The first run: nothing exists yet.
InitLive ==
    /\ pc = "down"
    /\ day = 0
    /\ market_history = <<>>
    /\ reported = <<>>
    /\ policy = <<>>
    /\ last = [op |-> "none", raised |-> ""]
    /\ policy_file = NoFile
    /\ metrics_file = <<>>
    /\ history = <<>>
    /\ base = 0
    /\ proc = no_proc
    /\ persisted = {}

NextLive == Start \/ DecideLive \/ Learn

\* One process that never ends; the agent is constructed and, from then on,
\* learn is called again and again, with decide calls in between in any
\* number.
SpecLive ==
    InitLive /\ [][NextLive]_vars /\ WF_vars(Start) /\ WF_vars(Learn)

\* ------------------------------------- learn, statement by statement
\* The calls above take learn as one step.  Here a process is followed
\* through learn one file or database operation at a time, so that it can
\* stop in the middle and so that two processes can interleave.  The
\* construction of the agent and decide stay single steps.

\* State of the callers that take whole calls; unused here.
call_vars == <<pc, day, market_history, reported, policy, last, base>>

\* learn, lines 304-343: the locals after the learning logic and self.policy
\* with the adjusted threshold.
learn_compute(p, h, current_price_today) ==
    LET last_trade    == h[learn_select(h)]
        variacao_real == variacao(current_price_today,
                                  last_trade.price_at_decision)
        dynamic_lr    == dynamic_rate(p.learning_rate, variacao_real)
        adj           == adjust(p, last_trade.action, variacao_real, dynamic_lr)
    IN  [trade_id    |-> last_trade.id,
         dynamic_lr  |-> dynamic_lr,
         lucro_trade |-> lucro(last_trade.action, variacao_real),
         adjusted    |-> adj.adjusted,
         policy      |-> [p EXCEPT !.threshold =
                             clamp(p, adj.threshold, adj.adjusted)]]

\* Process a is inside learn.
in_learn(a) == proc[a].pc \in {"open", "dump", "update", "metrics"}

\* A process starts and constructs the agent.
StepStart(a) ==
    /\ proc[a].pc = "down"
    /\ proc[a].runs < MaxRuns
    /\ LET loaded == _load_policy(policy_file)
       IN  /\ policy_file' = loaded.file
           /\ proc' = [proc EXCEPT ![a] =
                         IF loaded.raised # "" THEN Down(proc[a].runs + 1)
                         ELSE [pc |-> "idle", policy |-> loaded.policy,
                               frame |-> <<>>, runs |-> proc[a].runs + 1]]
    /\ UNCHANGED <<metrics_file, history, persisted, call_vars>>

\* agente.decide(mh): the INSERT and its commit are one database transaction.
StepDecide(a) ==
    /\ proc[a].pc = "idle"
    /\ Len(history) < base + MaxRecords
    /\ \E mh \in Histories, variation \in Variations :
          history' = decide_result(proc[a].policy[1], history, mh,
                                   variation).history
    /\ UNCHANGED <<policy_file, metrics_file, step_vars, call_vars>>

\* learn, lines 293-343: the SELECT finds a pending trade; the locals are
\* computed and self.policy is adjusted in memory.
LearnSelect(a) ==
    /\ proc[a].pc = "idle"
    /\ Pending(history) # {}
    /\ \E price \in LearnPrices :
          LET f == learn_compute(proc[a].policy[1], history, price)
          IN  proc' = [proc EXCEPT ![a].pc = "open",
                                   ![a].policy = <<f.policy>>,
                                   ![a].frame =
                                       <<[trade_id    |-> f.trade_id,
                                          dynamic_lr  |-> f.dynamic_lr,
                                          lucro_trade |-> f.lucro_trade,
                                          adjusted    |-> f.adjusted]>>]
    /\ UNCHANGED <<policy_file, metrics_file, history, persisted, call_vars>>

\* _save_policy, line 103: open(self.policy_file, "w") empties the file.
LearnOpen(a) ==
    /\ proc[a].pc = "open"
    /\ policy_file' = [exists |-> TRUE, text |-> <<>>]
    /\ proc' = [proc EXCEPT ![a].pc = "dump"]
    /\ UNCHANGED <<metrics_file, history, persisted, call_vars>>

\* _save_policy, line 104: json.dump and the close of the file.
LearnDump(a) ==
    /\ proc[a].pc = "dump"
    /\ policy_file' = written_policy(proc[a].policy[1])
    /\ persisted' = IF proc[a].frame[1].adjusted
                    THEN persisted \cup {proc[a].frame[1].trade_id}
                    ELSE persisted
    /\ proc' = [proc EXCEPT ![a].pc = "update"]
    /\ UNCHANGED <<metrics_file, history, call_vars>>

\* learn, lines 347-352: the UPDATE and its commit.
LearnUpdate(a) ==
    /\ proc[a].pc = "update"
    /\ history' = mark_evaluated(history, proc[a].frame[1].trade_id,
                                 proc[a].frame[1].dynamic_lr,
                                 proc[a].frame[1].lucro_trade)
    /\ proc' = [proc EXCEPT ![a].pc = "metrics"]
    /\ UNCHANGED <<policy_file, metrics_file, persisted, call_vars>>

\* learn, lines 354-356: _atualizar_metricas(), then learn returns.
LearnMetrics(a) ==
    /\ proc[a].pc = "metrics"
    /\ metrics_file' = _atualizar_metricas(history, proc[a].policy[1],
                                           metrics_file)
    /\ proc' = [proc EXCEPT ![a].pc = "idle", ![a].frame = <<>>]
    /\ UNCHANGED <<policy_file, history, persisted, call_vars>>

\* The process ends between two calls.
StepExit(a) ==
    /\ proc[a].pc = "idle"
    /\ proc' = [proc EXCEPT ![a] = Down(proc[a].runs)]
    /\ UNCHANGED <<policy_file, metrics_file, history, persisted, call_vars>>

\* The process is stopped inside learn (killed, power lost): its memory is
\* gone, the files stay as they are.
Crash(a) ==
    /\ in_learn(a)
    /\ proc' = [proc EXCEPT ![a] = Down(proc[a].runs)]
    /\ UNCHANGED <<policy_file, metrics_file, history, persisted, call_vars>>

\* One process at a time, which can be stopped inside learn and started
\* again.
NextCrash ==
    \/ StepStart(1) \/ StepDecide(1) \/ StepExit(1)
    \/ LearnSelect(1) \/ LearnOpen(1) \/ LearnDump(1)
    \/ LearnUpdate(1) \/ LearnMetrics(1)
    \/ Crash(1)

SpecCrash == Init /\ [][NextCrash]_vars

\* Two processes have constructed their agents on the same policy.json and
\* memory.db, right after the first run created the files.
InitShared ==
    /\ pc = "down"
    /\ day = 0
    /\ market_history = <<>>
    /\ reported = <<>>
    /\ policy = <<>>
    /\ last = [op |-> "none", raised |-> ""]
    /\ policy_file = first_run.policy_file
    /\ metrics_file = <<>>
    /\ history = <<>>
    /\ base = 0
    /\ proc = [a \in Procs |->
                 [pc |-> "idle", policy |-> <<first_run.policy>>,
                  frame |-> <<>>, runs |-> 1]]
    /\ persisted = {}

\* The two processes call decide and learn in any interleaving and are never
\* stopped inside a call.
NextShared ==
    \E a \in Procs :
        \/ StepDecide(a)
        \/ LearnSelect(a) \/ LearnOpen(a) \/ LearnDump(a)
        \/ LearnUpdate(a) \/ LearnMetrics(a)

SpecShared == InitShared /\ [][NextShared]_vars

\* ================================================================= claims
\* Shorthands used by the properties below.
in_range(p) ==
    /\ p.min_threshold <= p.threshold
    /\ p.threshold <= p.max_threshold

\* The step is a call of learn / of decide (every call replaces last).
learn_step == pc \in {"up", "run_learn", "daily_learn"} /\ last'.op = "learn"

decide_step == pc \in {"up", "run_decide", "daily_decide"} /\ last'.op = "decide"

\* The ledger rows the step turns from pending into evaluated.
evaluated_by_step ==
    {i \in DOMAIN history :
        /\ history[i].outcome_evaluated = 0
        /\ history'[i].outcome_evaluated = 1}

all_evaluated(h) == \A i \in DOMAIN h : h[i].outcome_evaluated = 1

C2_InRangeAfterLearn ==
    (/\ policy # <<>>
     /\ last.op = "learn" /\ last.raised = "" /\ last.msg # MsgNone)
    => in_range(self_policy)

\* C3: learn without a pending record returns (None, 0) and changes neither
\* the policy, nor policy.json, nor the ledger, nor metrics.json; so any
\* number of such calls in a row end in the same state.
C3_LearnWithoutPending ==
    [][ (learn_step /\ all_evaluated(history))
        => /\ last'.raised = ""
           /\ last'.msg = MsgNone
           /\ last'.variacao_real = 0
           /\ policy' = policy
           /\ policy_file' = policy_file
           /\ history' = history
           /\ metrics_file' = metrics_file
           /\ all_evaluated(history') ]_vars

\* C3 witness: learn was called on a ledger whose records are all evaluated.
C3_Witness ==
    /\ last.op = "learn" /\ last.raised = "" /\ last.msg = MsgNone
    /\ history # <<>> /\ all_evaluated(history)
    /\ metrics_file # <<>>

\* C4: a record is pending with both evaluation columns NULL or evaluated
\* with both set; every step keeps every row, never turns an evaluated row
\* back to pending and never changes the evaluation columns of an evaluated
\* row; a row that becomes evaluated gets both columns in that step.
C4_PendingToEvaluated ==
    /\ [](\A i \in DOMAIN history :
            /\ history[i].outcome_evaluated \in {0, 1}
            /\ history[i].outcome_evaluated = 0 =>
                  /\ history[i].learning_rate_used = <<>>
                  /\ history[i].real_return = <<>>
            /\ history[i].outcome_evaluated = 1 =>
                  /\ history[i].learning_rate_used # <<>>
                  /\ history[i].real_return # <<>>)
    /\ [][\A i \in DOMAIN history :
            /\ i \in DOMAIN history'
            /\ history[i].outcome_evaluated = 1 =>
                  /\ history'[i].outcome_evaluated = 1
                  /\ history'[i].learning_rate_used = history[i].learning_rate_used
                  /\ history'[i].real_return = history[i].real_return]_vars

\* C4 witness: two records have been evaluated by two learn calls with
\* different learning rates, so the one evaluated first lived through the
\* later learn call.
C4_Witness ==
    /\ base = 0
    /\ Len(history) = 2
    /\ history[1].outcome_evaluated = 1 /\ history[2].outcome_evaluated = 1
    /\ history[1].learning_rate_used # history[2].learning_rate_used
    /\ last.op = "learn" /\ last.raised = "" /\ last.msg # MsgNone

\* C5: under the callers' control cycles (run.py, run_daily.py), over any
\* number of process runs on the same ledger, at most one record is pending.
C5_AtMostOnePending == Cardinality(Pending(history)) <= 1

\* C6: when more than one record is pending, learn evaluates the pending
\* record with the smallest id, and in run_daily that is the record reported
\* to the user just before.
C6_LearnEvaluatesOldestPending ==
    [][ (learn_step /\ Cardinality(Pending(history)) > 1)
        => \E i \in Pending(history) :
              /\ \A j \in Pending(history) : history[i].id <= history[j].id
              /\ evaluated_by_step = {i}
              /\ pc = "daily_learn" =>
                    reported = <<history[i].action, history[i].predicted_price>>
      ]_vars

\* What the claims call delta, for the call recorded in last.
claimed_delta ==
    LET current == last.arg[Len(last.arg)]
    IN  RoundDiv((last.predicted_price - current) * Scale, current)

\* The row a successful decide call has just appended.
new_row == history[Len(history)]

decided == last.op = "decide" /\ last.raised = ""

\* C7: decide returns COMPRAR exactly when delta > max(threshold,
\* volatility * 0.5), VENDER exactly when delta < -max(threshold,
\* volatility * 0.5) and MANTER otherwise; so with a threshold >= 0 it
\* never returns COMPRAR or VENDER when |delta| <= threshold.
C7_DecisionRule ==
    decided =>
        LET bar == Max(self_policy.threshold,
                       MulFrac(new_row.volatility, VolatilityWeight))
        IN  /\ last.delta = claimed_delta
            /\ last.action = COMPRAR <=> claimed_delta > bar
            /\ last.action = VENDER <=> claimed_delta < -bar
            /\ last.action = MANTER <=>
                  (claimed_delta <= bar /\ claimed_delta >= -bar)
            /\ (self_policy.threshold >= 0
                /\ Abs(claimed_delta) <= self_policy.threshold)
               => last.action = MANTER

\* C7 witness: decide held although |delta| exceeded the policy threshold,
\* because the volatility raised the bar.
C7_Witness ==
    /\ decided
    /\ last.action = MANTER
    /\ Abs(last.delta) > self_policy.threshold

\* C8: a successful decide call appends exactly one row: pending, both
\* evaluation columns NULL, price_at_decision the last price of the history,
\* the returned action, threshold_used the base policy threshold; it leaves
\* the older rows, the policy and policy.json unchanged.
C8_DecideAppendsOneRow ==
    [][ (decide_step /\ last'.raised = "")
        => /\ Len(history') = Len(history) + 1
           /\ SubSeq(history', 1, Len(history)) = history
           /\ LET row == history'[Len(history')]
              IN  /\ row.outcome_evaluated = 0
                  /\ row.learning_rate_used = <<>>
                  /\ row.real_return = <<>>
                  /\ row.price_at_decision = last'.arg[Len(last'.arg)]
                  /\ row.predicted_price = last'.predicted_price
                  /\ row.action = last'.action
                  /\ row.threshold_used = self_policy.threshold
           /\ policy' = policy
           /\ policy_file' = policy_file ]_vars

\* C8 witness: a row was appended by a decide call whose effective threshold
\* was above the base threshold, after an older row had been evaluated.
C8_Witness ==
    /\ decided
    /\ Len(history) > 1
    /\ history[1].outcome_evaluated = 1
    /\ new_row.outcome_evaluated = 0
    /\ MulFrac(new_row.volatility, VolatilityWeight) > new_row.threshold_used

\* C9: decide on an empty history, or on one whose last price is 0, raises
\* an error to its caller, returns no action, appends no row and leaves the
\* policy unchanged.
C9_DecideRejectsDegenerateHistory ==
    [][ (decide_step
         /\ (last'.arg = <<>> \/ last'.arg[Len(last'.arg)] = 0))
        => /\ last'.raised # ""
           /\ DOMAIN last' = {"op", "arg", "raised"}
           /\ history' = history
           /\ policy' = policy
           /\ policy_file' = policy_file ]_vars

\* C9 witness: decide was called with a full window of prices ending in 0
\* and raised.
C9_Witness ==
    /\ last.op = "decide"
    /\ Len(last.arg) >= Window
    /\ last.arg[Len(last.arg)] = 0
    /\ last.arg[1] # 0
    /\ last.raised = "ZeroDivisionError"

\* The record a learn step evaluates is a COMPRAR made at a price above
\* today's / a MANTER followed by a move larger than the threshold.
wrong_buy(i) ==
    /\ history[i].action = COMPRAR
    /\ history[i].price_at_decision > last'.arg

missed_hold(i) ==
    /\ history[i].action = MANTER
    /\ Abs(variacao(last'.arg, history[i].price_at_decision))
          > self_policy.threshold

\* C10 as claimed: learn on a wrong COMPRAR leaves the threshold strictly
\* greater, learn on a missed MANTER leaves it strictly smaller.
C10_StrictAdjustment ==
    [][ learn_step
        => \A i \in evaluated_by_step :
              /\ wrong_buy(i) =>
                    policy'[1].threshold > self_policy.threshold
              /\ missed_hold(i) =>
                    policy'[1].threshold < self_policy.threshold ]_vars

\* C10 as amended: the threshold is strictly greater after a wrong COMPRAR
\* provided it was below max_threshold, and strictly smaller after a missed
\* MANTER provided it was above min_threshold; at min_threshold a missed
\* MANTER leaves it where it was.
C10_StrictAdjustmentInsideRange ==
    [][ learn_step
        => \A i \in evaluated_by_step :
              /\ (wrong_buy(i)
                  /\ self_policy.threshold < self_policy.max_threshold)
                 => policy'[1].threshold > self_policy.threshold
              /\ (missed_hold(i)
                  /\ self_policy.threshold > self_policy.min_threshold)
                 => policy'[1].threshold < self_policy.threshold
              /\ (missed_hold(i)
                  /\ self_policy.threshold = self_policy.min_threshold)
                 => policy'[1].threshold = self_policy.threshold ]_vars

\* C10 witness: learn has evaluated a COMPRAR that lost money and raised the
\* threshold above the default.
C10_Witness ==
    /\ policy # <<>>
    /\ last.op = "learn" /\ last.raised = "" /\ last.msg = MsgAumentou
    /\ \E i \in DOMAIN history :
          /\ history[i].action = COMPRAR
          /\ history[i].outcome_evaluated = 1
          /\ history[i].real_return[1] < 0
    /\ self_policy.threshold > default_policy.threshold

\* The record a learn step evaluates is a bet in the wrong direction.
wrong_bet(i) ==
    LET variacao_real == variacao(last'.arg, history[i].price_at_decision)
    IN  \/ history[i].action = COMPRAR /\ variacao_real < 0
        \/ history[i].action = VENDER /\ variacao_real > 0

\* C11: when learn evaluates a record that is neither a bet in the wrong
\* direction nor a MANTER followed by a move larger than the threshold, the
\* threshold is unchanged; every learn call leaves learning_rate,
\* min_threshold and max_threshold unchanged and changes no ledger row other
\* than the one it evaluates.
C11_LearnFrame ==
    [][ learn_step
        => /\ \A i \in evaluated_by_step :
                 (~wrong_bet(i) /\ ~missed_hold(i))
                 => policy'[1].threshold = self_policy.threshold
           /\ policy'[1].learning_rate = self_policy.learning_rate
           /\ policy'[1].min_threshold = self_policy.min_threshold
           /\ policy'[1].max_threshold = self_policy.max_threshold
           /\ Len(history') = Len(history)
           /\ \A i \in DOMAIN history :
                 i \notin evaluated_by_step => history'[i] = history[i] ]_vars

\* C11 witness: learn has evaluated the newer of two records without an
\* adjustment while the older one was still pending.
C11_Witness ==
    /\ last.op = "learn" /\ last.raised = "" /\ last.msg = MsgMantendo
    /\ Len(history) > base + 1
    /\ history[base + 1].outcome_evaluated = 0
    /\ history[base + 2].outcome_evaluated = 1

\* The step constructs an agent (or fails to).
init_step == pc = "down" /\ last'.op = "init"

\* C12: constructing the agent without a policy.json yields the default
\* policy and leaves a policy.json holding exactly the defaults; with a
\* policy.json that does not parse the construction raises, no agent exists
\* afterwards and policy.json is left as it was.
C12_LoadDefaultsOrFail ==
    [][ init_step
        => /\ ~policy_file.exists
              => /\ last'.raised = ""
                 /\ policy' = <<default_policy>>
                 /\ policy_file'.exists
                 /\ json_parses(policy_file'.text)
                 /\ json_load(policy_file'.text) = default_policy
           /\ (policy_file.exists /\ ~json_parses(policy_file.text))
              => /\ last'.raised # ""
                 /\ policy' = <<>>
                 /\ pc' = "down"
                 /\ policy_file' = policy_file ]_vars

\* C12 witness: the construction has failed on a policy.json cut off in the
\* middle, which is still there.
C12_Witness ==
    /\ last.op = "init" /\ last.raised = "JSONDecodeError"
    /\ pc = "down" /\ policy = <<>>
    /\ policy_file.exists
    /\ policy_file.text # <<>>
    /\ ~json_parses(policy_file.text)

\* C13: after _save_policy(P) for a policy P with the four keys the policy
\* in memory is P, and loading policy.json returns P without changing the
\* file.
C13_SaveLoadRoundTrip ==
    (last.op = "save")
    => /\ policy = <<last.arg>>
       /\ LET loaded == _load_policy(policy_file)
          IN  /\ loaded.raised = ""
              /\ loaded.policy = <<last.arg>>
              /\ loaded.file = policy_file

\* C13 witness: a policy whose threshold is outside its range and whose
\* learning rate is zero was saved and is the one in policy.json.
C13_Witness ==
    /\ last.op = "save"
    /\ last.arg.threshold > last.arg.max_threshold
    /\ last.arg.learning_rate = 0
    /\ policy_file.exists
    /\ json_value(policy_file.text, "threshold") = last.arg.threshold

\* C14: whenever an agent exists and no call is running, policy.json holds
\* the policy the agent has in memory; and an agent is constructed with the
\* policy found in policy.json, so after a learn call with the threshold
\* that call produced.
C14_DurableEqualsMemory ==
    /\ [](policy # <<>>
          => /\ policy_file.exists
             /\ json_parses(policy_file.text)
             /\ json_load(policy_file.text) = self_policy)
    /\ [][ (learn_step /\ last'.raised = "")
           => json_load(policy_file'.text).threshold = policy'[1].threshold
         ]_vars
    /\ [][ (init_step /\ policy_file.exists)
           => /\ policy' = <<json_load(policy_file.text)>>
              /\ policy_file' = policy_file ]_vars

\* C14 witness: an agent was constructed after an earlier agent's learn call
\* had raised the threshold, and holds the raised threshold.
C14_Witness ==
    /\ last.op = "init" /\ last.raised = ""
    /\ self_policy.threshold > default_policy.threshold
    /\ base = 0
    /\ Evaluated(history) # {}

C16_AppendOnlyLedger ==
    /\ [](\A i, j \in DOMAIN history : i < j => history[i].id < history[j].id)
    /\ [][ /\ Len(history') >= Len(history)
           /\ \A i \in DOMAIN history :
                 /\ history'[i].id = history[i].id
                 /\ history'[i].price_at_decision = history[i].price_at_decision
                 /\ history'[i].predicted_price = history[i].predicted_price
                 /\ history'[i].action = history[i].action
                 /\ history'[i].threshold_used = history[i].threshold_used
                 /\ history'[i].volatility = history[i].volatility
           /\ \A j \in DOMAIN history' \ DOMAIN history :
                 \A i \in DOMAIN history : history'[j].id > history[i].id
         ]_vars

\* C16 witness: two rows were appended to a ledger that already held rows,
\* got the next two ids, and both have since been evaluated.
C16_Witness ==
    /\ base > 0
    /\ Len(history) = base + 2
    /\ history[base + 1].id = base + 1
    /\ history[base + 2].id = base + 2
    /\ all_evaluated(history)
    /\ history[base + 1].threshold_used # history[base + 2].threshold_used

\* Process a's step is the json.dump of _save_policy / the UPDATE of learn.
dump_step(a) == proc[a].pc = "dump" /\ proc'[a].pc = "update"

update_step(a) == proc[a].pc = "update" /\ proc'[a].pc = "metrics"

\* C18: whenever no process is between the open and the json.dump of
\* _save_policy, also after a process was stopped there, a policy.json that
\* exists holds a complete policy, so that a later load can parse it.
C18_AtomicPolicySave ==
    (\A a \in Procs : proc[a].pc # "dump")
    => (policy_file.exists => json_parses(policy_file.text))

\* C19: an adjusted threshold is written to policy.json at most once for
\* each ledger record, also when a process is stopped between that write and
\* the UPDATE of the record and another process calls learn afterwards.
C19_OneAdjustmentPerRecord ==
    [][ \A a \in Procs :
           (dump_step(a) /\ proc[a].frame[1].adjusted)
           => proc[a].frame[1].trade_id \notin persisted ]_vars

\* C20: with two agents on the same ledger and policy file whose learn calls
\* overlap, the UPDATE of a learn call always hits a record that is still
\* pending (no record is evaluated twice), and a learn call never replaces
\* the adjusted policy that the other, still running, call has written by
\* a different one (no adjustment is lost).
C20_ConcurrentLearn ==
    [][ \A a \in Procs :
           /\ update_step(a)
              => \E i \in Pending(history) :
                    history[i].id = proc[a].frame[1].trade_id
           /\ \A b \in Procs \ {a} :
                 (/\ dump_step(a)
                  /\ proc[b].pc \in {"update", "metrics"}
                  /\ proc[b].frame[1].adjusted)
                 => policy_file' = written_policy(proc[b].policy[1]) ]_vars

\* C17: when learn is called again and again, every record that decide has
\* appended is evaluated at some later time: no row of the ledger stays
\* pending for ever.
C17_EveryRecordEvaluated ==
    \A i \in 1..MaxRecords :
        (i \in DOMAIN history /\ history[i].outcome_evaluated = 0)
        ~> (i \in DOMAIN history /\ history[i].outcome_evaluated = 1)

\* C21: a record evaluated by learn(current_price) gets learning_rate_used =
\* min(learning_rate * (1 + 10 * |realized change|), 0.20) and real_return =
\* the realized change for COMPRAR, its negative for VENDER and 0 for
\* MANTER, the realized change being (current_price - price_at_decision) /
\* price_at_decision; so every evaluated record has learning_rate_used <=
\* 0.20 and every evaluated MANTER record has real_return = 0.
C21_RateAndReturn ==
    /\ [](\A i \in DOMAIN history :
            history[i].outcome_evaluated = 1
            => /\ history[i].learning_rate_used[1] <= 2 * (Scale \div 10)
               /\ history[i].action = MANTER => history[i].real_return[1] = 0)
    /\ [][ learn_step
           => \A i \in evaluated_by_step :
                 LET change == RoundDiv((last'.arg - history[i].price_at_decision)
                                            * Scale,
                                        history[i].price_at_decision)
                     rate   == RoundDiv(self_policy.learning_rate
                                            * (Scale + 10 * Abs(change)),
                                        Scale)
                 IN  /\ history'[i].learning_rate_used =
                           << IF rate < 2 * (Scale \div 10) THEN rate
                              ELSE 2 * (Scale \div 10) >>
                     /\ history'[i].real_return =
                           << IF history[i].action = COMPRAR THEN change
                              ELSE IF history[i].action = VENDER THEN -change
                              ELSE 0 >> ]_vars

\* C21 witness: the ledger holds an evaluated MANTER record whose rate was
\* capped at 0.20 and an evaluated VENDER record that lost money with a rate
\* below the cap.
C21_Witness ==
    /\ \E i \in DOMAIN history :
          /\ history[i].outcome_evaluated = 1
          /\ history[i].action = MANTER
          /\ history[i].learning_rate_used = <<MaxDynamicLr>>
    /\ \E i \in DOMAIN history :
          /\ history[i].outcome_evaluated = 1
          /\ history[i].action = VENDER
          /\ history[i].real_return[1] < 0
          /\ history[i].learning_rate_used[1] < MaxDynamicLr

\* C22: every ledger record has a price_at_decision other than 0, so no
\* learn call raises ZeroDivisionError, and a learn call made while a record
\* is pending returns normally and evaluates one.
C22_NoZeroPriceRecorded ==
    /\ [](\A i \in DOMAIN history : history[i].price_at_decision # 0)
    /\ [][ learn_step
           => /\ last'.raised = ""
              /\ Pending(history) # {} => evaluated_by_step # {} ]_vars

\* C22 witness: decide was called with a single price of 0 and raised,
\* leaving the ledger with nothing but the pending record of an earlier
\* call.
C22_Witness ==
    /\ last.op = "decide"
    /\ last.arg = <<0>>
    /\ last.raised = "ZeroDivisionError"
    /\ base = 0
    /\ Len(history) = 1
    /\ Pending(history) = {1}

\* C23: decide on a history of 1 to 4 prices whose last price is not 0
\* returns normally; the record it appends has volatility 0.01; the action
\* follows the effective threshold max(threshold, 0.005); and when the
\* predicted price equals the last price, delta is 0 and the action is
\* MANTER.
C23_ShortHistoryDefault ==
    [][ (/\ decide_step
         /\ Len(last'.arg) \in 1..(Window - 1)
         /\ last'.arg[Len(last'.arg)] # 0)
        => /\ last'.raised = ""
           /\ Len(history') = Len(history) + 1
           /\ history'[Len(history')].volatility = Scale \div 100
           /\ LET bar == IF self_policy.threshold > Scale \div 200
                         THEN self_policy.threshold
                         ELSE Scale \div 200
              IN  /\ last'.action = COMPRAR <=> last'.delta > bar
                  /\ last'.action = VENDER <=> last'.delta < -bar
           /\ last'.predicted_price = last'.arg[Len(last'.arg)]
              => /\ last'.delta = 0
                 /\ last'.action = MANTER ]_vars

\* C23 witness: decide was called with a single price and a prediction
\* equal to it, while the threshold was below 0.005, and returned MANTER
\* with a record of volatility 0.01.
C23_Witness ==
    /\ decided
    /\ Len(last.arg) = 1
    /\ last.predicted_price = last.arg[1]
    /\ last.action = MANTER
    /\ self_policy.threshold < Scale \div 200
    /\ new_row.volatility = DefaultVolatility
    /\ new_row.outcome_evaluated = 0

====
